---- MODULE Spec2Model ----
(***************************************************************************)
(* A model of the App component of src/App.tsx: the two image slots, the   *)
(* generation request (handleGenerate), the upload handlers and the        *)
(* loading-message interval of the useEffect hook.                         *)
(*                                                                         *)
(* Granularity.  JavaScript runs one task at a time, so a handler up to    *)
(* its first await is one step, and the settlement of a promise together   *)
(* with the continuation that follows the await is one step.  The state    *)
(* updates of one step are committed together, and the useEffect of lines  *)
(* 72-85 (cleanup of the previous effect, then the new effect) is part of  *)
(* the step that changes isLoading.                                        *)
(*                                                                         *)
(* The handlers are modelled as the operations they are: each can be       *)
(* invoked in any state of the mounted component.  The button of lines     *)
(* 98-101, which binds handleGenerate, is disabled while a slot is absent  *)
(* or isLoading holds; the handler itself tests only the slots (line 51).  *)
(*                                                                         *)
(* After the unmount React drops the component's state: the state          *)
(* variables keep their last values and later setState calls do nothing.   *)
(*                                                                         *)
(* A nullable value is a sequence of length at most one: None for null,    *)
(* Some(x) for x.                                                          *)
(***************************************************************************)
EXTENDS Naturals, Sequences, FiniteSets

VARIABLES
    personImage,     \* useState<ImageInfo | null>, line 12
    clothImage,      \* useState<ImageInfo | null>, line 13
    resultImage,     \* useState<string | null>, line 14
    isLoading,       \* useState(false), line 15
    error,           \* useState<string | null>, line 16
    loadingMessage,  \* useState(LOADING_MESSAGES[0]), line 17
    reads,           \* fileToImageInfo promises not yet settled, in issue order
    calls,           \* generateVirtualTryOnImage promises not yet settled, in issue order
    intervals,       \* the intervals set by setInterval and not yet cleared
    interval,        \* the handle the last effect's cleanup closure holds (line 76)
    uploadRejected,  \* the upload handler promise settled last was rejected
    mounted          \* the component has not been unmounted

vars == <<personImage, clothImage, resultImage, isLoading, error, loadingMessage,
          reads, calls, intervals, interval, uploadRejected, mounted>>

state == <<personImage, clothImage, resultImage, isLoading, error, loadingMessage>>

----------------------------------------------------------------------------
(* Bounds of the model *)

MaxCalls == 2

MaxReads == 2

----------------------------------------------------------------------------
(* Values *)

None == <<>>

Some(x) == <<x>>

RemoveAt(s, i) == [j \in 1..(Len(s) - 1) |-> IF j < i THEN s[j] ELSE s[j + 1]]

\* The files the host's picker hands to the person uploader and to the cloth uploader.
PersonFiles ==
    { [name |-> "me.png",   type |-> "image/png",  bytes |-> "P1"],
      [name |-> "me2.jpg",  type |-> "image/jpeg", bytes |-> "P2"] }

ClothFiles ==
    { [name |-> "shirt.png", type |-> "image/png", bytes |-> "C1"] }

\* The base64 text of a file's bytes.
Base64(bytes) ==
    CASE bytes = "P1" -> "UDE="
      [] bytes = "P2" -> "UDI="
      [] bytes = "C1" -> "QzE="

\* reader.readAsDataURL(file): the data URL, as its comma-separated parts.
readAsDataURL(file) == <<"data:" \o file.type \o ";base64", Base64(file.bytes)>>

\* The ImageInfo fileToImageInfo resolves with when the read succeeds.
fileToImageInfo(file) ==
    LET result == readAsDataURL(file)
        base64 == result[2]
    IN  [base64 |-> base64, mimeType |-> file.type, name |-> file.name]

\* The progress messages of ./constants (line 9): a fixed sequence of distinct strings.
LOADING_MESSAGES == <<"message 0", "message 1", "message 2">>

\* What generateVirtualTryOnImage can resolve with.
GeneratedImages == {"data:image/png;base64,XYZ", "data:image/png;base64,ABC"}

\* What generateVirtualTryOnImage can reject with: an Error with its message, or a
\* value that is not an Error.
Failures ==
    { [isError |-> TRUE,  message |-> "quota exceeded"],
      [isError |-> FALSE, message |-> "quota exceeded"] }

ValidationMessage == "Please upload both your photo and a clothing item photo."

\* Line 65.
ErrorMessageOf(e) == IF e.isError THEN e.message ELSE "An unknown error occurred."

\* Line 66.
FailureMessage(e) == "Failed to generate image. " \o ErrorMessageOf(e)

\* Line 51: the guard of handleGenerate.
GuardFails(p, c) == p = None \/ c = None

\* Line 80.
NextMessageIndex(k) == (k + 1) % Len(LOADING_MESSAGES)

----------------------------------------------------------------------------
(* The effect of lines 72-85 *)

\* A cleanup that clears nothing (the effect returns no cleanup).
Cleanup_Leak(ivs, h) == ivs

\* Line 84: the cleanup clears the interval its closure holds.
Cleanup(ivs, h) == {t \in ivs : Some(t.id) # h}

FreshId(ivs) == CHOOSE n \in 1..(Cardinality(ivs) + 1) : \A t \in ivs : t.id # n

\* An effect that sets its interval whether or not isLoading holds (line 77 missing).
RunEffect_Unconditional(loading) ==
    IF loading = isLoading
    THEN UNCHANGED <<intervals, interval>>
    ELSE LET cleared == Cleanup(intervals, interval)
         IN  /\ intervals' = cleared \cup {[id |-> FreshId(cleared), messageIndex |-> 0]}
             /\ interval' = Some(FreshId(cleared))

\* The effect re-runs when isLoading changes: the previous cleanup, then lines 76-83.
RunEffect(loading) ==
    IF loading = isLoading
    THEN UNCHANGED <<intervals, interval>>
    ELSE LET cleared == Cleanup(intervals, interval)
         IN  IF loading
             THEN /\ intervals' = cleared \cup {[id |-> FreshId(cleared), messageIndex |-> 0]}
                  /\ interval' = Some(FreshId(cleared))
             ELSE /\ intervals' = cleared
                  /\ interval' = None

----------------------------------------------------------------------------
Init ==
    /\ personImage = None
    /\ clothImage = None
    /\ resultImage = None
    /\ isLoading = FALSE
    /\ error = None
    /\ loadingMessage = LOADING_MESSAGES[1]
    /\ reads = <<>>
    /\ calls = <<>>
    /\ intervals = {}
    /\ interval = None
    /\ uploadRejected = FALSE
    /\ mounted = TRUE

----------------------------------------------------------------------------
(* Uploads, lines 32-48 *)

\* A clear of the person slot that also drops the displayed result.
ClearPersonImage_ResetsResult ==
    /\ mounted
    /\ personImage' = None
    /\ resultImage' = None
    /\ uploadRejected' = FALSE
    /\ UNCHANGED <<clothImage, isLoading, error, loadingMessage,
                   reads, calls, intervals, interval, mounted>>

\* handlePersonImageUpload(null), line 37.
ClearPersonImage ==
    /\ mounted
    /\ personImage' = None
    /\ uploadRejected' = FALSE
    /\ UNCHANGED <<clothImage, resultImage, isLoading, error, loadingMessage,
                   reads, calls, intervals, interval, mounted>>

\* handleClothImageUpload(null), line 46.
ClearClothImage ==
    /\ mounted
    /\ clothImage' = None
    /\ uploadRejected' = FALSE
    /\ UNCHANGED <<personImage, resultImage, isLoading, error, loadingMessage,
                   reads, calls, intervals, interval, mounted>>

\* handlePersonImageUpload(file) up to its await, line 34.
StartPersonRead(file) ==
    /\ mounted
    /\ Len(reads) < MaxReads
    /\ reads' = Append(reads, [slot |-> "person", file |-> file])
    /\ UNCHANGED <<state, calls, intervals, interval, uploadRejected, mounted>>

\* handleClothImageUpload(file) up to its await, line 43.
StartClothRead(file) ==
    /\ mounted
    /\ Len(reads) < MaxReads
    /\ reads' = Append(reads, [slot |-> "cloth", file |-> file])
    /\ UNCHANGED <<state, calls, intervals, interval, uploadRejected, mounted>>

\* A completion that is dropped when a later upload of the same slot is still being
\* read (each read tagged, a superseded result discarded).
ReadLoaded_DropsSuperseded(i) ==
    /\ i \in 1..Len(reads)
    /\ reads' = RemoveAt(reads, i)
    /\ IF ~mounted \/ \E j \in (i + 1)..Len(reads) : reads[j].slot = reads[i].slot
       THEN UNCHANGED <<personImage, clothImage>>
       ELSE IF reads[i].slot = "person"
            THEN /\ personImage' = Some(fileToImageInfo(reads[i].file))
                 /\ UNCHANGED clothImage
            ELSE /\ clothImage' = Some(fileToImageInfo(reads[i].file))
                 /\ UNCHANGED personImage
    /\ uploadRejected' = FALSE
    /\ UNCHANGED <<resultImage, isLoading, error, loadingMessage,
                   calls, intervals, interval, mounted>>

\* reader.onload (lines 23-27) and the handler's continuation (line 35 or 44).
ReadLoaded(i) ==
    /\ i \in 1..Len(reads)
    /\ reads' = RemoveAt(reads, i)
    /\ IF ~mounted
       THEN UNCHANGED <<personImage, clothImage>>
       ELSE IF reads[i].slot = "person"
            THEN /\ personImage' = Some(fileToImageInfo(reads[i].file))
                 /\ UNCHANGED clothImage
            ELSE /\ clothImage' = Some(fileToImageInfo(reads[i].file))
                 /\ UNCHANGED personImage
    /\ uploadRejected' = FALSE
    /\ UNCHANGED <<resultImage, isLoading, error, loadingMessage,
                   calls, intervals, interval, mounted>>

\* A handler that catches the failed read, clears the slot and returns normally.
ReadFailed_ClearsSlot(i) ==
    /\ i \in 1..Len(reads)
    /\ reads' = RemoveAt(reads, i)
    /\ IF reads[i].slot = "person"
       THEN personImage' = None /\ UNCHANGED clothImage
       ELSE clothImage' = None /\ UNCHANGED personImage
    /\ uploadRejected' = FALSE
    /\ UNCHANGED <<resultImage, isLoading, error, loadingMessage,
                   calls, intervals, interval, mounted>>

\* reader.onerror (line 28): the promise rejects, the await of line 34 or 43 throws
\* and the handler's own promise rejects, having set nothing.
ReadFailed(i) ==
    /\ i \in 1..Len(reads)
    /\ reads' = RemoveAt(reads, i)
    /\ uploadRejected' = TRUE
    /\ UNCHANGED <<state, calls, intervals, interval, mounted>>

----------------------------------------------------------------------------
(* handleGenerate, lines 50-70 *)

\* A guard placed after setIsLoading(true): the refusal leaves the loading flag set.
GenerateRefused_SetsLoading ==
    /\ mounted
    /\ GuardFails(personImage, clothImage)
    /\ error' = Some(ValidationMessage)
    /\ isLoading' = TRUE
    /\ RunEffect(TRUE)
    /\ UNCHANGED <<personImage, clothImage, resultImage, loadingMessage,
                   reads, calls, uploadRejected, mounted>>

\* Lines 51-54.
GenerateRefused ==
    /\ mounted
    /\ GuardFails(personImage, clothImage)
    /\ error' = Some(ValidationMessage)
    /\ UNCHANGED <<personImage, clothImage, resultImage, isLoading, loadingMessage,
                   reads, calls, intervals, interval, uploadRejected, mounted>>

\* A start that issues the call without setIsLoading(true) (line 56 missing).
GenerateStart_NoLoading ==
    /\ mounted
    /\ ~GuardFails(personImage, clothImage)
    /\ Len(calls) < MaxCalls
    /\ resultImage' = None
    /\ error' = None
    /\ calls' = Append(calls, [person |-> personImage[1], cloth |-> clothImage[1]])
    /\ UNCHANGED <<personImage, clothImage, isLoading, loadingMessage, reads,
                   intervals, interval, uploadRejected, mounted>>

\* Lines 56-61, up to the await.
GenerateStart ==
    /\ mounted
    /\ ~GuardFails(personImage, clothImage)
    /\ Len(calls) < MaxCalls
    /\ isLoading' = TRUE
    /\ resultImage' = None
    /\ error' = None
    /\ calls' = Append(calls, [person |-> personImage[1], cloth |-> clothImage[1]])
    /\ RunEffect(TRUE)
    /\ UNCHANGED <<personImage, clothImage, loadingMessage, reads, uploadRejected, mounted>>

handleGenerate == GenerateRefused \/ GenerateStart

\* What the continuation of a fulfilled call sets: lines 62 and 68.
OnSuccess(generatedImage) ==
    /\ resultImage' = Some(generatedImage)
    /\ error' = error
    /\ isLoading' = FALSE
    /\ RunEffect(FALSE)

\* A failure path without the finally block: setIsLoading(false) only follows success.
OnFailure_NoFinally(e) ==
    /\ error' = Some(FailureMessage(e))
    /\ resultImage' = resultImage
    /\ isLoading' = isLoading
    /\ UNCHANGED <<intervals, interval>>

\* What the continuation of a rejected call sets: lines 63-66 and 68.
OnFailure(e) ==
    /\ error' = Some(FailureMessage(e))
    /\ resultImage' = resultImage
    /\ isLoading' = FALSE
    /\ RunEffect(FALSE)

\* A continuation that drops the result when a slot no longer holds the image the
\* call was issued with (a cancellation on re-upload).
GenerateFulfilled_DropsStale(i, generatedImage) ==
    /\ i \in 1..Len(calls)
    /\ calls' = RemoveAt(calls, i)
    /\ IF mounted
       THEN /\ resultImage' = IF personImage = Some(calls[i].person) /\ clothImage = Some(calls[i].cloth)
                               THEN Some(generatedImage)
                               ELSE resultImage
            /\ error' = error
            /\ isLoading' = FALSE
            /\ RunEffect(FALSE)
       ELSE UNCHANGED <<resultImage, error, isLoading, intervals, interval>>
    /\ UNCHANGED <<personImage, clothImage, loadingMessage, reads, uploadRejected, mounted>>

\* The call resolves with generatedImage.
GenerateFulfilled(i, generatedImage) ==
    /\ i \in 1..Len(calls)
    /\ calls' = RemoveAt(calls, i)
    /\ IF mounted
       THEN OnSuccess(generatedImage)
       ELSE UNCHANGED <<resultImage, error, isLoading, intervals, interval>>
    /\ UNCHANGED <<personImage, clothImage, loadingMessage, reads, uploadRejected, mounted>>

\* The call rejects with e.
GenerateRejected(i, e) ==
    /\ i \in 1..Len(calls)
    /\ calls' = RemoveAt(calls, i)
    /\ IF mounted
       THEN OnFailure(e)
       ELSE UNCHANGED <<resultImage, error, isLoading, intervals, interval>>
    /\ UNCHANGED <<personImage, clothImage, loadingMessage, reads, uploadRejected, mounted>>

GenerateSettles ==
    \E i \in 1..MaxCalls :
        \/ \E generatedImage \in GeneratedImages : GenerateFulfilled(i, generatedImage)
        \/ \E e \in Failures : GenerateRejected(i, e)

----------------------------------------------------------------------------
(* The interval callback, lines 79-82 *)

Tick(t) ==
    /\ t \in intervals
    /\ intervals' = (intervals \ {t}) \cup
                        {[id |-> t.id, messageIndex |-> NextMessageIndex(t.messageIndex)]}
    /\ loadingMessage' = IF mounted
                         THEN LOADING_MESSAGES[NextMessageIndex(t.messageIndex) + 1]
                         ELSE loadingMessage
    /\ UNCHANGED <<personImage, clothImage, resultImage, isLoading, error,
                   reads, calls, interval, uploadRejected, mounted>>

TimerTick == \E t \in intervals : Tick(t)

\* The component is unmounted: the last effect's cleanup runs (line 84).
Unmount ==
    /\ mounted
    /\ mounted' = FALSE
    /\ intervals' = Cleanup(intervals, interval)
    /\ interval' = None
    /\ UNCHANGED <<state, reads, calls, uploadRejected>>

----------------------------------------------------------------------------
Upload ==
    \/ ClearPersonImage
    \/ ClearClothImage
    \/ \E file \in PersonFiles : StartPersonRead(file)
    \/ \E file \in ClothFiles : StartClothRead(file)

ReadSettles == \E i \in 1..MaxReads : ReadLoaded(i) \/ ReadFailed(i)

Next ==
    \/ Upload
    \/ ReadSettles
    \/ handleGenerate
    \/ GenerateSettles
    \/ TimerTick
    \/ Unmount

Spec == Init /\ [][Next]_vars

\* Each call to the generation service eventually resolves or rejects.
FairSpec == Init /\ [][Next]_vars /\ WF_vars(GenerateSettles)

\* Line 100: the disabled attribute of the button that binds handleGenerate.
ButtonDisabled == GuardFails(personImage, clothImage) \/ isLoading

\* Lines 98-101: a click on the enabled button runs handleGenerate, whose guard
\* (line 51) then passes.
ClickGenerate == ~ButtonDisabled /\ GenerateStart

NextUI ==
    \/ Upload
    \/ ReadSettles
    \/ ClickGenerate
    \/ GenerateSettles
    \/ TimerTick
    \/ Unmount

\* The component driven through its button only.
SpecUI == Init /\ [][NextUI]_vars

----------------------------------------------------------------------------
(* Properties *)

Refused == mounted /\ GuardFails(personImage, clothImage) /\ handleGenerate

Settled == mounted /\ GenerateSettles

\* C1: handleGenerate called with a slot absent sets error to the validation
\* message, starts no call to the generation service and leaves isLoading as it was.
C1_RefusalSetsValidationError ==
    [][Refused => /\ error' = Some("Please upload both your photo and a clothing item photo.")
                  /\ calls' = calls
                  /\ isLoading' = isLoading]_vars

\* A refusal has happened while a request was loading: isLoading kept its value.
C1_Witness ==
    /\ GuardFails(personImage, clothImage)
    /\ error = Some(ValidationMessage)
    /\ isLoading
    /\ calls # <<>>

\* C2: for every guard-passing handleGenerate, isLoading goes false -> true at the
\* start, stays true while that call is outstanding, and goes true -> false when
\* the call's outcome is applied.
C2_LoadingOncePerInvocation ==
    [][/\ GenerateStart => (~isLoading /\ isLoading')
       /\ (mounted /\ calls' # <<>>) => isLoading'
       /\ Settled => (isLoading /\ ~isLoading')]_vars

\* The writes of the success branch (line 62) and of the failure branch (line 66).
SuccessApplied == (\E g \in GeneratedImages : resultImage' = Some(g)) /\ error' = error

FailureApplied == (\E e \in Failures : error' = Some(FailureMessage(e))) /\ resultImage' = resultImage

\* C3: the step that concludes a call applies the success branch or the failure
\* branch and never the writes of both, and, every call settling eventually, a
\* loading controller eventually stops loading.
C3_OneOutcomeAndLoadingEnds ==
    /\ [][Settled => /\ SuccessApplied \/ FailureApplied
                     /\ ~(resultImage' # resultImage /\ error' # error)]_vars
    /\ ((mounted /\ isLoading) ~> (~mounted \/ ~isLoading))

\* A call has failed and the controller is no longer loading.
C3_Witness ==
    /\ mounted
    /\ ~isLoading
    /\ calls = <<>>
    /\ \E e \in Failures : error = Some(FailureMessage(e))

\* C4: right after a call resolves, resultImage is the returned image, error is
\* absent and isLoading is false; right after a call fails, error is the prefixed
\* failure description, resultImage is absent and isLoading is false.
C4_OutcomeState ==
    [][/\ \A i \in 1..MaxCalls : \A g \in GeneratedImages :
              (mounted /\ GenerateFulfilled(i, g)) =>
                  (resultImage' = Some(g) /\ error' = None /\ ~isLoading')
       /\ \A i \in 1..MaxCalls : \A e \in Failures :
              (mounted /\ GenerateRejected(i, e)) =>
                  /\ error' = Some("Failed to generate image. " \o ErrorMessageOf(e))
                  /\ resultImage' = None
                  /\ ~isLoading']_vars

\* C5: a guard-passing handleGenerate leaves resultImage and error absent when the
\* call is issued, and neither a result nor an error shows while the call is
\* outstanding.
C5_ClearedWhileOutstanding ==
    /\ [][GenerateStart => (resultImage' = None /\ error' = None)]_vars
    /\ []((mounted /\ calls # <<>>) => (resultImage = None /\ error = None))

PersonStep == ClearPersonImage \/ \E i \in 1..MaxReads : ReadLoaded(i) /\ reads[i].slot = "person"

ClothStep == ClearClothImage \/ \E i \in 1..MaxReads : ReadLoaded(i) /\ reads[i].slot = "cloth"

\* C6: a slot can be set or cleared in every state of the mounted controller,
\* loading or not, and setting a slot changes nothing but that slot.
C6_SlotSetFrame ==
    /\ [](mounted => /\ ENABLED ClearPersonImage
                     /\ ENABLED ClearClothImage
                     /\ \A i \in 1..Len(reads) : ENABLED ReadLoaded(i)
                     /\ Len(reads) < MaxReads =>
                            /\ \A f \in PersonFiles : ENABLED StartPersonRead(f)
                            /\ \A f \in ClothFiles : ENABLED StartClothRead(f))
    /\ [][/\ (PersonStep \/ personImage' # personImage) =>
                 UNCHANGED <<clothImage, isLoading, resultImage, error, loadingMessage>>
          /\ (ClothStep \/ clothImage' # clothImage) =>
                 UNCHANGED <<personImage, isLoading, resultImage, error, loadingMessage>>]_vars

\* Both slots were replaced or cleared while a call was outstanding: the call
\* holds other images than the slots do, and the request is still loading.
C6_Witness ==
    /\ mounted
    /\ isLoading
    /\ calls # <<>>
    /\ personImage # None
    /\ personImage # Some(calls[1].person)
    /\ clothImage = None

\* C7: from the start of every loading cycle until the first tick of its timer,
\* loadingMessage is the first of LOADING_MESSAGES.
C7_CycleStartsAtFirstMessage ==
    /\ [][(mounted /\ ~isLoading /\ isLoading') => loadingMessage' = LOADING_MESSAGES[1]]_vars
    /\ [][(mounted /\ isLoading /\ isLoading' /\ loadingMessage = LOADING_MESSAGES[1] /\ ~TimerTick)
              => loadingMessage' = LOADING_MESSAGES[1]]_vars

\* C8: loadingMessage changes only in a step taken while isLoading is true.
C8_MessageChangesOnlyWhileLoading ==
    [][loadingMessage' # loadingMessage => (mounted /\ isLoading)]_vars

\* Loading has ended with a later message on display, and no timer is left to
\* change it.
C8_Witness ==
    /\ mounted
    /\ ~isLoading
    /\ loadingMessage = LOADING_MESSAGES[3]
    /\ intervals = {}

Position(m) == CHOOSE k \in 1..Len(LOADING_MESSAGES) : LOADING_MESSAGES[k] = m

\* C9: in a loading cycle each tick moves loadingMessage one position on in
\* LOADING_MESSAGES, the last wrapping to the first, so that after k ticks of the
\* cycle the message is LOADING_MESSAGES[k mod N].
C9_TickAdvancesOnePosition ==
    /\ [][(mounted /\ TimerTick) =>
              Position(loadingMessage') = (Position(loadingMessage) % Len(LOADING_MESSAGES)) + 1]_vars
    /\ [](mounted => \A t \in intervals : loadingMessage = LOADING_MESSAGES[t.messageIndex + 1])

\* C10: at most one interval is active, one is active exactly while the mounted
\* controller is loading, and none is after the unmount.
C10_OneTimerWhileLoading ==
    /\ Cardinality(intervals) <= 1
    /\ mounted => (intervals # {} <=> isLoading)
    /\ ~mounted => intervals = {}

\* The controller was unmounted while loading, and its timer is gone.
C10_Witness ==
    /\ ~mounted
    /\ isLoading
    /\ calls # <<>>
    /\ intervals = {}

\* C11: when handleGenerate is triggered only with both slots present and
\* isLoading false, at most one call to the generation service is outstanding.
C11_OneCallOutstanding == Len(calls) <= 1

\* A call is outstanding and the trigger is disabled by isLoading alone.
C11_Witness ==
    /\ mounted
    /\ Len(calls) = 1
    /\ isLoading
    /\ ~GuardFails(personImage, clothImage)

\* The slot a read was issued for, after the step.
SlotAfter(r) == IF r.slot = "person" THEN personImage' ELSE clothImage'

\* C12: when uploads of one slot overlap, every completing operation writes its
\* own value whatever was issued after it: a read that completes sets the slot to
\* its image even when later-issued reads are outstanding or have completed, a
\* clear sets it to absent, and neither a clear nor a new upload cancels a read.
C12_LastCompletedWins ==
    [][/\ \A i \in 1..MaxReads :
              (mounted /\ ReadLoaded(i)) => SlotAfter(reads[i]) = Some(fileToImageInfo(reads[i].file))
       /\ ClearPersonImage => (personImage' = None /\ reads' = reads)
       /\ ClearClothImage => (clothImage' = None /\ reads' = reads)
       /\ (\E f \in PersonFiles : StartPersonRead(f)) => SubSeq(reads', 1, Len(reads)) = reads
       /\ (\E f \in ClothFiles : StartClothRead(f)) => SubSeq(reads', 1, Len(reads)) = reads]_vars

\* Two uploads of different files for the person slot overlap: both reads are
\* outstanding, and the slot holds the image of the file issued last, which the
\* completion of the read issued first will replace.
C12_Witness ==
    /\ mounted
    /\ Len(reads) = 2
    /\ reads[1].slot = "person"
    /\ reads[2].slot = "person"
    /\ reads[1].file # reads[2].file
    /\ personImage = Some(fileToImageInfo(reads[2].file))

\* C13: a failed read produces no image and changes nothing of the state (the slot
\* keeps its value), and the upload handler's promise rejects.
C13_FailedReadChangesNothing ==
    [][\A i \in 1..MaxReads :
           ReadFailed(i) => /\ UNCHANGED <<personImage, clothImage, resultImage, isLoading, error>>
                            /\ uploadRejected']_vars

\* An upload was rejected and both slots still hold their images.
C13_Witness ==
    /\ mounted
    /\ uploadRejected
    /\ reads = <<>>
    /\ personImage # None
    /\ clothImage # None

IsFailureError(x) == \E e \in Failures : x = Some(FailureMessage(e))

\* C14: no state has isLoading true together with a generation-failure error: the
\* failure message is set in the step that ends the loading, and the next start
\* clears it.
C14_NoFailureErrorWhileLoading == (mounted /\ isLoading) => ~IsFailureError(error)

\* A call rejected with a value that is no Error: the fallback message is set and
\* the loading has ended.
C14_Witness ==
    /\ mounted
    /\ ~isLoading
    /\ calls = <<>>
    /\ resultImage = None
    /\ error = Some("Failed to generate image. An unknown error occurred.")

\* C15: a guard-passing handleGenerate issues exactly one call, with the images the
\* slots hold at that moment; an upload or a clear made while the call is
\* outstanding changes no outstanding call, and the call's result is applied
\* whatever the slots hold by then.
C15_CallKeepsItsImages ==
    [][/\ GenerateStart =>
              calls' = Append(calls, [person |-> personImage[1], cloth |-> clothImage[1]])
       /\ (Upload \/ ReadSettles) => calls' = calls
       /\ \A i \in 1..MaxCalls : \A g \in GeneratedImages :
              (mounted /\ GenerateFulfilled(i, g)) => resultImage' = Some(g)
       /\ \A i \in 1..MaxCalls : \A e \in Failures :
              (mounted /\ GenerateRejected(i, e)) => error' = Some(FailureMessage(e))]_vars

\* The person slot was cleared while the call was outstanding: the call still
\* holds the image it was issued with.
C15_Witness ==
    /\ mounted
    /\ isLoading
    /\ Len(calls) = 1
    /\ personImage = None
    /\ clothImage = Some(calls[1].cloth)

\* C16: isLoading is true whenever a call to the generation service is outstanding.
C16_LoadingWhileCallOutstanding == (mounted /\ calls # <<>>) => isLoading

\* C17: once no call is outstanding, what is displayed is the outcome of one
\* request only: a result is never shown beside the failure of another request.
C17_OneOutcomeDisplayed ==
    (mounted /\ calls = <<>>) => ~(resultImage # None /\ IsFailureError(error))

\* C18: resultImage and error are never both present.
C18_ResultAndErrorExclusive == mounted => ~(resultImage # None /\ error # None)

====
